---- MODULE Spec2Model ----
(***************************************************************************)
(* A model of camping.py, the recreation.gov campsite checker:             *)
(*   send_request            the fetch with its retry loop                  *)
(*   get_park_information    folding monthly documents per campsite         *)
(*   get_num_available_sites the window filter, the nights clamp, the tally *)
(*   consecutive_nights      the run partition and the range emission       *)
(*   check_park / output_human_output   the batch over the parks, as       *)
(*                           __main__ runs it (json_output=False)          *)
(*                                                                         *)
(* A datetime is a triple <<year, month, day>>; a date string is a tuple   *)
(* <<format, year, month, day>>, so that strptime and strftime are real    *)
(* conversions between strings of a format, datetimes and day ordinals.    *)
(***************************************************************************)
EXTENDS Integers, Sequences, FiniteSets, TLC

VARIABLES
    \* consecutive_nights called on its own
    rf_pc, rf_available, rf_nights, rf_result,
    \* get_park_information's fold and get_num_available_sites
    gs_pc, gs_start, gs_end, gs_nights, gs_type, gs_api_data, gs_info, gs_result,
    \* the batch: output_human_output over the parks, fetch by fetch
    b_pc,            \* "waiting" (a request is out), "raise", "failed", "crashed", "done"
    b_parks, b_start, b_end, b_nights,
    b_park,          \* index of the park being checked
    b_stage,         \* "month" or "name": which fetch of check_park is running
    b_api_data,      \* get_park_information's api_data
    b_info,          \* check_park's park_information
    b_tries,         \* send_request's tries
    b_out, b_availabilities,    \* output_human_output's locals
    b_emails,        \* what send_email has sent
    b_stdout,        \* what print has printed
    b_return,        \* output_human_output's return value, "none" before it returns
    \* history, for the properties
    b_requests,      \* requests.get calls of the running fetch
    b_fetches,       \* send_request calls of the batch
    b_failed,        \* a send_request call has given up
    b_documents,     \* send_request calls that returned a document
    b_results        \* what check_park has returned, park by park

rfVars == <<rf_pc, rf_available, rf_nights, rf_result>>
bVars == <<b_pc, b_parks, b_start, b_end, b_nights, b_park, b_stage, b_api_data,
           b_info, b_tries, b_out, b_availabilities, b_emails, b_stdout, b_return,
           b_requests, b_fetches, b_failed, b_documents, b_results>>
gsVars == <<gs_pc, gs_start, gs_end, gs_nights, gs_type, gs_api_data, gs_info,
            gs_result>>

----------------------------------------------------------------------------
(* Bounds of the model *)

\* days of the date universe of the Range Finder's inputs
MaxDay == 7
\* longest available-date list handed to consecutive_nights
MaxAvail == 4
\* largest requested number of nights
MaxNights == 3
\* longest short window, in days
MaxWin == 3
\* parks of a batch
MaxParks == 2

----------------------------------------------------------------------------
(* Program constants *)

INPUT_DATE_FORMAT == "%Y-%m-%d"
ISO_DATE_FORMAT_REQUEST == "%Y-%m-%dT00:00:00.000Z"
ISO_DATE_FORMAT_RESPONSE == "%Y-%m-%dT00:00:00Z"

\* strptime(..., "%d") accepts the days 1..31 and yields a datetime of
\* January 1900
StrptimeMaxDay == 31
StrptimeYear == 1900

\* send_request gives up when tries > 5
MaxTries == 5

SUCCESS_EMOJI == "SUCCESS"
FAILURE_EMOJI == "FAILURE"

----------------------------------------------------------------------------
(* datetime: the proleptic Gregorian calendar of the standard library *)

IsLeap(y) == (y % 4 = 0) /\ ((y % 100 # 0) \/ (y % 400 = 0))

DaysInMonth(y, m) ==
    IF m = 2 THEN (IF IsLeap(y) THEN 29 ELSE 28)
    ELSE IF m \in {4, 6, 9, 11} THEN 30 ELSE 31

DaysBeforeYear(y) ==
    LET p == y - 1 IN p * 365 + (p \div 4) - (p \div 100) + (p \div 400)

RECURSIVE DaysBeforeMonth(_, _)
DaysBeforeMonth(y, m) ==
    IF m = 1 THEN 0 ELSE DaysBeforeMonth(y, m - 1) + DaysInMonth(y, m - 1)

\* datetime.toordinal()
toordinal(dt) == DaysBeforeYear(dt[1]) + DaysBeforeMonth(dt[1], dt[2]) + dt[3]

\* datetime.fromordinal(n)
fromordinal(n) ==
    LET n0   == n - 1
        n400 == n0 \div 146097
        r400 == n0 % 146097
        n100 == r400 \div 36524
        r100 == r400 % 36524
        n4   == r100 \div 1461
        r4   == r100 % 1461
        n1   == r4 \div 365
        r1   == r4 % 365
        year == n400 * 400 + 1 + n100 * 100 + n4 * 4 + n1
        m0   == (r1 + 50) \div 32
        month == IF DaysBeforeMonth(year, m0) > r1 THEN m0 - 1 ELSE m0
    IN  IF n1 = 4 \/ n100 = 4
        THEN <<year - 1, 12, 31>>
        ELSE <<year, month, r1 - DaysBeforeMonth(year, month) + 1>>

\* datetime.strftime(date_object, format_string)
format_date(date_object, format_string) ==
    <<format_string, date_object[1], date_object[2], date_object[3]>>

\* datetime.strptime(date_string, format): the string must be of the format
StrptimeOk(date_string, format) ==
    /\ date_string[1] = format
    /\ date_string[3] \in 1..12
    /\ date_string[4] \in 1..DaysInMonth(date_string[2], date_string[3])

strptime(date_string) == <<date_string[2], date_string[3], date_string[4]>>

\* a datetime plus a timedelta of n days
AddDays(dt, n) == fromordinal(toordinal(dt) + n)

----------------------------------------------------------------------------
(* consecutive_nights *)

\* itertools.groupby(ordinal_dates, lambda x: x - next(c)): the k-th element
\* (from 0) has key x - k, and neighbours of equal key form one group
RECURSIVE GroupBy(_, _, _)
GroupBy(ordinal_dates, i, acc) ==
    IF i > Len(ordinal_dates) THEN acc
    ELSE LET key(j) == ordinal_dates[j] - (j - 1)
         IN  IF i > 1 /\ key(i) = key(i - 1)
             THEN GroupBy(ordinal_dates, i + 1,
                     [acc EXCEPT ![Len(acc)] = Append(@, ordinal_dates[i])])
             ELSE GroupBy(ordinal_dates, i + 1,
                     Append(acc, <<ordinal_dates[i]>>))

consective_ranges(ordinal_dates) == GroupBy(ordinal_dates, 1, <<>>)

\* the inner loop: for start_index in range(0, len(r) - nights)
RunRanges(r, nights) ==
    [j \in 1..(IF Len(r) > nights THEN Len(r) - nights ELSE 0) |->
        << format_date(fromordinal(r[j]), INPUT_DATE_FORMAT),
           format_date(fromordinal(r[j + nights]), INPUT_DATE_FORMAT) >>]

\* the outer loop over the runs, with its skip test r[0] < nights_ordinal
RECURSIVE LongEnough(_, _, _, _)
LongEnough(runs, k, nights, nights_ordinal) ==
    IF k > Len(runs) THEN <<>>
    ELSE (IF runs[k][1] < nights_ordinal THEN <<>>
          ELSE RunRanges(runs[k], nights))
         \o LongEnough(runs, k + 1, nights, nights_ordinal)

\* The result: err is TRUE when strptime raises ValueError (a date string not
\* of the response format, or str(nights) not a day of the month).
consecutive_nights(available, nights) ==
    IF \/ \E i \in 1..Len(available) :
              ~StrptimeOk(available[i], ISO_DATE_FORMAT_RESPONSE)
       \/ nights \notin 1..StrptimeMaxDay
    THEN [err |-> TRUE, runs |-> <<>>, ranges |-> <<>>]
    ELSE LET ordinal_dates ==
                 [i \in 1..Len(available) |-> toordinal(strptime(available[i]))]
             nights_ordinal == toordinal(<<StrptimeYear, 1, nights>>)
             runs == consective_ranges(ordinal_dates)
         IN  [err |-> FALSE, runs |-> runs,
              ranges |-> LongEnough(runs, 1, nights, nights_ordinal)]

----------------------------------------------------------------------------
(* get_park_information: the fold of the monthly documents *)

\* A dict is a sequence of <<key, value>> pairs in insertion order.
Keys(d) == {d[i][1] : i \in 1..Len(d)}
Get(d, k) == d[CHOOSE i \in 1..Len(d) : d[i][1] = k][2]

\* data.setdefault(campsite_id, [])
SetDefault(d, k) == IF k \in Keys(d) THEN d ELSE Append(d, <<k, <<>>>>)

\* campsite_type unset (None): falsy in `if campsite_type and ...`
NoType == ""

\* the dates one campsite entry contributes: status Available, and of the
\* requested type when a type is requested
AvailableOf(campsite_data, campsite_type) ==
    LET keep(e) == /\ e[2] = "Available"
                   /\ ~(campsite_type # NoType
                        /\ campsite_type # campsite_data.campsite_type)
        kept == SelectSeq(campsite_data.availabilities, keep)
    IN  [i \in 1..Len(kept) |-> kept[i][1]]

\* FoldSite with the entry made only for a campsite that has a retained date
FoldSiteLazy(data, campsite_id, available) ==
    IF available = <<>> THEN data
    ELSE LET d == SetDefault(data, campsite_id)
         IN  [i \in 1..Len(d) |->
                IF d[i][1] = campsite_id THEN <<d[i][1], d[i][2] \o available>>
                ELSE d[i]]

\* one campsite of one month: a = data.setdefault(id, []); a += available
FoldSite(data, campsite_id, available) ==
    LET d == SetDefault(data, campsite_id)
    IN  [i \in 1..Len(d) |->
            IF d[i][1] = campsite_id THEN <<d[i][1], d[i][2] \o available>>
            ELSE d[i]]

RECURSIVE FoldMonth(_, _, _, _)
FoldMonth(data, campsites, i, campsite_type) ==
    IF i > Len(campsites) THEN data
    ELSE FoldMonth(
            FoldSite(data, campsites[i][1],
                     AvailableOf(campsites[i][2], campsite_type)),
            campsites, i + 1, campsite_type)

RECURSIVE FoldData(_, _, _, _)
FoldData(data, api_data, i, campsite_type) ==
    IF i > Len(api_data) THEN data
    ELSE FoldData(FoldMonth(data, api_data[i].campsites, 1, campsite_type),
                  api_data, i + 1, campsite_type)

\* lines 139-153: data = {} and the two loops
CollapseData(api_data, campsite_type) == FoldData(<<>>, api_data, 1, campsite_type)

\* rrule(MONTHLY, dtstart=start_of_month, until=end_date): the firsts of the
\* months from start_date's month up to end_date, inclusive
RECURSIVE MonthsFrom(_, _)
MonthsFrom(month_date, end_date) ==
    IF toordinal(month_date) > toordinal(end_date) THEN <<>>
    ELSE <<month_date>> \o
         MonthsFrom(IF month_date[2] = 12 THEN <<month_date[1] + 1, 1, 1>>
                    ELSE <<month_date[1], month_date[2] + 1, 1>>, end_date)

months(start_date, end_date) ==
    MonthsFrom(<<start_date[1], start_date[2], 1>>, end_date)

----------------------------------------------------------------------------
(* get_num_available_sites *)

\* nights unset (None): like every value outside range(1, num_days + 1)
NightsUnset == 0

\* (end_date - start_date).days
num_days(start_date, end_date) == toordinal(end_date) - toordinal(start_date)

\* the response-format strings of the days of [start_date, end_date)
WindowDates(start_date, end_date) ==
    {format_date(AddDays(end_date, -i), ISO_DATE_FORMAT_RESPONSE) :
        i \in 1..num_days(start_date, end_date)}

\* if nights not in range(1, num_days + 1): nights = num_days
EffectiveNights(nights, n_days) ==
    IF nights \notin 1..n_days THEN n_days ELSE nights

\* DesiredAvailable without the test `date not in dates`
DesiredAvailableAll(availabilities, dates) == availabilities

\* the dates of one site that are in the window, in the list's order
DesiredAvailable(availabilities, dates) ==
    SelectSeq(availabilities, LAMBDA date : date \in dates)

\* int(site)
int(site) == CHOOSE n \in 0..99 : ToString(n) = site

\* the loop over park_information.items(); acc is (err, num_available,
\* availabilities_filtered) so far
RECURSIVE SitesLoop(_, _, _, _, _)
SitesLoop(park_information, i, dates, nights, acc) ==
    IF i > Len(park_information) \/ acc.err THEN acc
    ELSE LET site == park_information[i][1]
             desired_available == DesiredAvailable(park_information[i][2], dates)
             cn == consecutive_nights(desired_available, nights)
         IN  IF desired_available = <<>>
             THEN SitesLoop(park_information, i + 1, dates, nights, acc)
             ELSE IF cn.err
             THEN [acc EXCEPT !.err = TRUE]
             ELSE SitesLoop(park_information, i + 1, dates, nights,
                    [err |-> FALSE,
                     num_available |-> acc.num_available
                                       + (IF cn.ranges # <<>> THEN 1 ELSE 0),
                     availabilities_filtered |->
                        acc.availabilities_filtered \o
                        [j \in 1..Len(cn.ranges) |->
                            [site |-> int(site), start |-> cn.ranges[j][1],
                             end |-> cn.ranges[j][2]]]])

\* The result; err is TRUE when the call raises (ValueError out of
\* consecutive_nights), and then nothing is returned.
get_num_available_sites(park_information, start_date, end_date, nights) ==
    LET n_days == num_days(start_date, end_date)
        eff == EffectiveNights(nights, n_days)
        acc == SitesLoop(park_information, 1,
                         WindowDates(start_date, end_date), eff,
                         [err |-> FALSE, num_available |-> 0,
                          availabilities_filtered |-> <<>>])
    IN  IF acc.err
        THEN [err |-> TRUE, num_available |-> 0, maximum |-> 0,
              availabilities_filtered |-> <<>>, nights |-> eff]
        ELSE [err |-> FALSE, num_available |-> acc.num_available,
              maximum |-> Len(park_information),
              availabilities_filtered |-> acc.availabilities_filtered,
              nights |-> eff]

----------------------------------------------------------------------------
(* The monthly documents a server may answer with *)

SiteIds == <<"1", "2">>

\* the type tag of each campsite
SiteType(site) == IF site = "1" THEN "STANDARD NONELECTRIC" ELSE "STANDARD ELECTRIC"

\* the window's first day: 2020-01-30, so that a window of two days or more
\* needs the documents of two months
WindowStart == <<2020, 1, 30>>

\* a window one day longer than the longest str(nights) that "%d" parses
LongWindow == StrptimeMaxDay + 1

\* the days of month_date's month among the first MaxWin days from WindowStart
NearDays(month_date) ==
    {AddDays(WindowStart, k)[3] : k \in
        {j \in 0..(MaxWin - 1) : AddDays(WindowStart, j)[2] = month_date[2]}}

AllDays(month_date) == 1..DaysInMonth(month_date[1], month_date[2])

\* the sets of Available days a campsite may have in a month's document
DayPatterns(month_date, long) ==
    (IF long THEN {{}} ELSE SUBSET NearDays(month_date)) \cup {AllDays(month_date)}

\* one campsite's entry: every day of the month with its status, ascending
CampsiteData(site, month_date, days) ==
    [campsite_type |-> SiteType(site),
     availabilities |->
        [d \in 1..DaysInMonth(month_date[1], month_date[2]) |->
            << format_date(<<month_date[1], month_date[2], d>>,
                           ISO_DATE_FORMAT_RESPONSE),
               IF d \in days THEN "Available" ELSE "Reserved" >>]]

\* a document: pick[site] is "absent" or the set of the site's Available days
RECURSIVE CampsitesOf(_, _, _)
CampsitesOf(month_date, pick, i) ==
    IF i > Len(SiteIds) THEN <<>>
    ELSE (IF pick[SiteIds[i]] = {0} THEN <<>>
          ELSE << <<SiteIds[i], CampsiteData(SiteIds[i], month_date, pick[SiteIds[i]])>> >>)
         \o CampsitesOf(month_date, pick, i + 1)

Absent == {0}

Documents(month_date, long) ==
    {[campsites |-> CampsitesOf(month_date, pick, 1)] :
        pick \in [{SiteIds[i] : i \in 1..Len(SiteIds)} ->
                    DayPatterns(month_date, long) \cup {Absent}]}

----------------------------------------------------------------------------
(* get_park_information's fold followed by get_num_available_sites, on      *)
(* every sequence of documents of the window's months                       *)

NoResult ==
    [err |-> FALSE, num_available |-> 0, maximum |-> 0,
     availabilities_filtered |-> <<>>, nights |-> 0]

NotReturned == <<>>

IdleB ==
    /\ b_pc = "idle"
    /\ b_parks = <<>>
    /\ b_start = WindowStart
    /\ b_end = WindowStart
    /\ b_nights = 0
    /\ b_park = 0
    /\ b_stage = "month"
    /\ b_api_data = <<>>
    /\ b_info = <<>>
    /\ b_tries = 0
    /\ b_out = <<>>
    /\ b_availabilities = FALSE
    /\ b_emails = <<>>
    /\ b_stdout = <<>>
    /\ b_return = NotReturned
    /\ b_requests = 0
    /\ b_fetches = 0
    /\ b_failed = FALSE
    /\ b_documents = 0
    /\ b_results = <<>>

IdleRF ==
    /\ rf_pc = "idle"
    /\ rf_available = <<>>
    /\ rf_nights = 0
    /\ rf_result = [err |-> FALSE, runs |-> <<>>, ranges |-> <<>>]

IdleGS ==
    /\ gs_pc = "idle"
    /\ gs_start = WindowStart
    /\ gs_end = WindowStart
    /\ gs_nights = 0
    /\ gs_type = NoType
    /\ gs_api_data = <<>>
    /\ gs_info = <<>>
    /\ gs_result = NoResult

InitGS ==
    /\ IdleRF
    /\ IdleB
    /\ gs_pc = "fetch"
    /\ gs_start = WindowStart
    /\ gs_end \in {AddDays(WindowStart, w) : w \in (1..MaxWin) \cup {LongWindow}}
    /\ gs_nights \in {NightsUnset} \cup (1..MaxNights) \cup {LongWindow + 1}
    /\ gs_type \in {NoType, SiteType("1")}
    /\ gs_api_data = <<>>
    /\ gs_info = <<>>
    /\ gs_result = NoResult

\* resp = send_request(url, params); api_data.append(resp)
ReceiveDocument ==
    /\ gs_pc = "fetch"
    /\ Len(gs_api_data) < Len(months(gs_start, gs_end))
    /\ \E doc \in Documents(months(gs_start, gs_end)[Len(gs_api_data) + 1],
                            num_days(gs_start, gs_end) = LongWindow) :
          gs_api_data' = Append(gs_api_data, doc)
    /\ UNCHANGED <<gs_pc, gs_start, gs_end, gs_nights, gs_type, gs_info, gs_result>>
    /\ UNCHANGED <<rfVars, bVars>>

\* the rest of get_park_information: park_information = the collapsed data
CollapseDocuments ==
    /\ gs_pc = "fetch"
    /\ Len(gs_api_data) = Len(months(gs_start, gs_end))
    /\ gs_info' = CollapseData(gs_api_data, gs_type)
    /\ gs_pc' = "collapsed"
    /\ UNCHANGED <<gs_start, gs_end, gs_nights, gs_type, gs_api_data, gs_result>>
    /\ UNCHANGED <<rfVars, bVars>>

GetNumAvailableSitesCall ==
    /\ gs_pc = "collapsed"
    /\ gs_result' = get_num_available_sites(gs_info, gs_start, gs_end, gs_nights)
    /\ gs_pc' = "done"
    /\ UNCHANGED <<gs_start, gs_end, gs_nights, gs_type, gs_api_data, gs_info>>
    /\ UNCHANGED <<rfVars, bVars>>

NextGS == ReceiveDocument \/ CollapseDocuments \/ GetNumAvailableSitesCall

----------------------------------------------------------------------------
(* send_request, check_park and output_human_output: one batch of parks,    *)
(* one step per answer of the server                                        *)

\* __main__ calls main with nights = 1
MainNights == 1

ParkIds == [k \in 1..MaxParks |-> ToString(k)]

\* resp["campground"]["facility_name"]
NameOf(park_id) == <<"facility_name", park_id>>

\* line 88, for a non-200 answer to a request of the loop: tries > 5
GiveUp(tries) == tries > MaxTries

\* send_email("RETRYING ...", ..., "_error")
ErrorAlert == [kind |-> "error", body |-> <<>>]

\* Alerts with the mail sent on every non-200 answer
AlertsAlways(emails, tries) == Append(emails, ErrorAlert)

\* what a non-200 answer adds to the sent mail: the alert, when giving up
Alerts(emails, tries) ==
    IF tries >= 2 /\ GiveUp(tries) THEN Append(emails, ErrorAlert) ELSE emails

\* lines 261-271: the park's line of the report
Line(park_id, current, maximum, name_of_park, nights) ==
    [emoji |-> IF current # 0 THEN SUCCESS_EMOJI ELSE FAILURE_EMOJI,
     name |-> name_of_park, park_id |-> park_id, current |-> current,
     maximum |-> maximum, nights |-> nights]

\* Flag overwritten by each park: availabilities = bool(current)
FlagOfLast(availabilities, current) == current # 0

\* lines 261-265: availabilities = True when current is truthy
Flag(availabilities, current) == IF current # 0 THEN TRUE ELSE availabilities

\* lines 273-289: the headline, the mail, the lines, the return value
Finish(out, availabilities, emails) ==
    [pc |-> "done",
     stdout |-> << [headline |-> availabilities] >> \o out,
     emails |-> IF availabilities
                THEN Append(emails, [kind |-> "available", body |-> out])
                ELSE emails,
     return |-> <<availabilities>>]

\* AfterRaise with the error caught in the loop over the parks, and the
\* report made of the parks checked so far
AfterRaiseSwallowed(out, availabilities, emails) ==
    Finish(out, availabilities, emails)

\* RuntimeError leaves send_request, check_park, output_human_output and
\* main; __main__ logs it and raises it again
AfterRaise(out, availabilities, emails) ==
    [pc |-> "failed", stdout |-> <<>>, emails |-> emails, return |-> NotReturned]

InitB ==
    /\ IdleRF
    /\ IdleGS
    /\ b_pc = "waiting"
    /\ b_parks \in {SubSeq(ParkIds, 1, n) : n \in 1..MaxParks}
    /\ b_start = WindowStart
    /\ b_end \in {AddDays(WindowStart, w) : w \in 1..MaxWin}
    /\ b_nights = MainNights
    /\ b_park = 1
    /\ b_stage = "month"
    /\ b_api_data = <<>>
    /\ b_info = <<>>
    /\ b_tries = 1
    /\ b_out = <<>>
    /\ b_availabilities = FALSE
    /\ b_emails = <<>>
    /\ b_stdout = <<>>
    /\ b_return = NotReturned
    /\ b_requests = 1
    /\ b_fetches = 1
    /\ b_failed = FALSE
    /\ b_documents = 0
    /\ b_results = <<>>

\* send_request starts: resp = requests.get(...); tries = 1
StartFetch ==
    /\ b_tries' = 1
    /\ b_requests' = 1
    /\ b_fetches' = b_fetches + 1

\* a non-200 answer, and the loop goes on: requests.get again, tries += 1
RetryRequest ==
    /\ b_pc = "waiting"
    /\ ~(b_tries >= 2 /\ GiveUp(b_tries))
    /\ b_tries' = b_tries + 1
    /\ b_requests' = b_requests + 1
    /\ b_emails' = Alerts(b_emails, b_tries)
    /\ UNCHANGED <<b_pc, b_parks, b_start, b_end, b_nights, b_park, b_stage,
                   b_api_data, b_info, b_out, b_availabilities, b_stdout,
                   b_return, b_fetches, b_failed, b_documents, b_results>>
    /\ UNCHANGED <<rfVars, gsVars>>

\* a non-200 answer with tries > 5: send_email(...), then the raise is next
SendErrorAlert ==
    /\ b_pc = "waiting"
    /\ b_tries >= 2 /\ GiveUp(b_tries)
    /\ b_emails' = Alerts(b_emails, b_tries)
    /\ b_pc' = "raise"
    /\ b_failed' = TRUE
    /\ UNCHANGED <<b_parks, b_start, b_end, b_nights, b_park, b_stage, b_api_data,
                   b_info, b_tries, b_out, b_availabilities, b_stdout, b_return,
                   b_requests, b_fetches, b_documents, b_results>>
    /\ UNCHANGED <<rfVars, gsVars>>

\* raise RuntimeError("failedRequest", ...): nothing catches it
RaiseRuntimeError ==
    /\ b_pc = "raise"
    /\ LET after == AfterRaise(b_out, b_availabilities, b_emails)
       IN  /\ b_pc' = after.pc
           /\ b_stdout' = after.stdout
           /\ b_emails' = after.emails
           /\ b_return' = after.return
    /\ UNCHANGED <<b_parks, b_start, b_end, b_nights, b_park, b_stage, b_api_data,
                   b_info, b_tries, b_out, b_availabilities, b_requests,
                   b_fetches, b_failed, b_documents, b_results>>
    /\ UNCHANGED <<rfVars, gsVars>>

\* a 200 answer to a month's request: api_data.append(resp), then the next
\* month's fetch, or the collapse and get_name_of_park's fetch
RespondDocument ==
    /\ b_pc = "waiting"
    /\ b_stage = "month"
    /\ \E doc \in Documents(months(b_start, b_end)[Len(b_api_data) + 1], TRUE) :
          LET api_data == Append(b_api_data, doc)
          IN  IF Len(api_data) < Len(months(b_start, b_end))
              THEN /\ b_api_data' = api_data
                   /\ UNCHANGED <<b_stage, b_info>>
              ELSE /\ b_api_data' = <<>>
                   /\ b_stage' = "name"
                   /\ b_info' = CollapseData(api_data, NoType)
    /\ b_documents' = b_documents + 1
    /\ StartFetch
    /\ UNCHANGED <<b_pc, b_parks, b_start, b_end, b_nights, b_park, b_out,
                   b_availabilities, b_emails, b_stdout, b_return, b_failed,
                   b_results>>
    /\ UNCHANGED <<rfVars, gsVars>>

\* a 200 answer to the name's request: check_park returns, the park's line
\* is appended, and the next park's check starts or the report is made
RespondName ==
    /\ b_pc = "waiting"
    /\ b_stage = "name"
    /\ b_documents' = b_documents + 1
    /\ \E res \in {get_num_available_sites(b_info, b_start, b_end, b_nights)} :
       LET park_id == b_parks[b_park]
           out == Append(b_out, Line(park_id, res.num_available, res.maximum,
                                     NameOf(park_id), b_nights))
           availabilities == Flag(b_availabilities, res.num_available)
       IN  IF res.err
           THEN /\ b_pc' = "crashed"
                /\ UNCHANGED <<b_park, b_stage, b_api_data, b_info, b_tries, b_out,
                               b_availabilities, b_emails, b_stdout, b_return,
                               b_requests, b_fetches, b_results>>
           ELSE /\ b_results' = Append(b_results,
                       [park_id |-> park_id, current |-> res.num_available,
                        maximum |-> res.maximum, name |-> NameOf(park_id)])
                /\ b_out' = out
                /\ b_availabilities' = availabilities
                /\ b_info' = <<>>
                /\ UNCHANGED b_api_data
                /\ IF b_park < Len(b_parks)
                   THEN /\ b_park' = b_park + 1
                        /\ b_stage' = "month"
                        /\ StartFetch
                        /\ UNCHANGED <<b_pc, b_emails, b_stdout, b_return>>
                   ELSE LET end == Finish(out, availabilities, b_emails)
                        IN  /\ b_pc' = end.pc
                            /\ b_stdout' = end.stdout
                            /\ b_emails' = end.emails
                            /\ b_return' = end.return
                            /\ UNCHANGED <<b_park, b_stage, b_tries, b_requests,
                                           b_fetches>>
    /\ UNCHANGED <<b_parks, b_start, b_end, b_nights, b_failed>>
    /\ UNCHANGED <<rfVars, gsVars>>

Next ==
    \/ RetryRequest
    \/ SendErrorAlert
    \/ RaiseRuntimeError
    \/ RespondDocument
    \/ RespondName

----------------------------------------------------------------------------
(* The Range Finder on its own: every list of distinct dates, every nights *)

\* the first day of the date universe: 2020-01-28, so that the universe
\* crosses a month boundary
FirstDay == <<2020, 1, 28>>

RFDates ==
    {format_date(AddDays(FirstDay, k), ISO_DATE_FORMAT_RESPONSE) : k \in 0..(MaxDay - 1)}

DistinctSeqs(S, n) ==
    {s \in UNION {[1..k -> S] : k \in 1..n} :
        \A i, j \in 1..Len(s) : i # j => s[i] # s[j]}

InitRF ==
    /\ IdleGS
    /\ IdleB
    /\ rf_pc = "start"
    /\ rf_available \in DistinctSeqs(RFDates, MaxAvail)
    /\ rf_nights \in 1..MaxNights
    /\ rf_result = [err |-> FALSE, runs |-> <<>>, ranges |-> <<>>]

ConsecutiveNightsCall ==
    /\ rf_pc = "start"
    /\ rf_result' = consecutive_nights(rf_available, rf_nights)
    /\ rf_pc' = "done"
    /\ UNCHANGED <<rf_available, rf_nights>>
    /\ UNCHANGED <<gsVars, bVars>>

NextRF == ConsecutiveNightsCall

vars == <<rfVars, gsVars, bVars>>

SpecRF == InitRF /\ [][NextRF]_vars

SpecGS == InitGS /\ [][NextGS]_vars

Spec == InitB /\ [][Next]_vars

----------------------------------------------------------------------------
(* Properties of the Range Finder (SpecRF) *)

Ord(date_string) == toordinal(strptime(date_string))

RFOrdinals == {Ord(rf_available[i]) : i \in 1..Len(rf_available)}

RFSorted ==
    \A i \in 1..(Len(rf_available) - 1) : Ord(rf_available[i]) < Ord(rf_available[i + 1])

\* the ranges whose start day lies in lo..hi
RangesStartingIn(ranges, lo, hi) ==
    Cardinality({k \in 1..Len(ranges) : Ord(ranges[k][1]) \in lo..hi})

IsMaximalRun(S, lo, hi) ==
    /\ lo <= hi
    /\ \A d \in lo..hi : d \in S
    /\ (lo - 1) \notin S
    /\ (hi + 1) \notin S

\* C1: from every maximal run of length L of an ascending list of available
\* days, consecutive_nights emits exactly L - nights + 1 ranges when
\* nights <= L (one per start offset 0..L-nights, each (start, start + nights))
\* and none when nights > L.
C1_RunRangeCount ==
    (rf_pc = "done" /\ RFSorted) =>
        /\ ~rf_result.err
        /\ \A lo \in RFOrdinals : \A hi \in RFOrdinals :
              IsMaximalRun(RFOrdinals, lo, hi) =>
                 LET L == hi - lo + 1
                 IN  /\ RangesStartingIn(rf_result.ranges, lo, hi) =
                            (IF rf_nights <= L THEN L - rf_nights + 1 ELSE 0)
                     /\ rf_nights <= L =>
                           \A o \in 0..(L - rf_nights) :
                              \E k \in 1..Len(rf_result.ranges) :
                                  /\ Ord(rf_result.ranges[k][1]) = lo + o
                                  /\ Ord(rf_result.ranges[k][2]) = lo + o + rf_nights

\* the list in ascending order of day
RECURSIVE SortByDay(_)
SortByDay(S) ==
    IF S = {} THEN <<>>
    ELSE LET first == CHOOSE x \in S : \A y \in S : Ord(x) <= Ord(y)
         IN  <<first>> \o SortByDay(S \ {first})

SeqSet(q) == {q[i] : i \in 1..Len(q)}

\* C7: the runs are maximal whatever the order of the list (two days d and
\* d + 1 of the list are in one run), and the ranges are those of the list
\* in ascending order.
C7_SortedMaximalRuns ==
    rf_pc = "done" =>
        /\ \A d \in RFOrdinals :
              (d + 1) \in RFOrdinals =>
                 \E k \in 1..Len(rf_result.runs) :
                     {d, d + 1} \subseteq SeqSet(rf_result.runs[k])
        /\ SeqSet(rf_result.ranges) =
              SeqSet(consecutive_nights(SortByDay(SeqSet(rf_available)),
                                        rf_nights).ranges)

----------------------------------------------------------------------------
(* Properties of get_num_available_sites (SpecGS) *)

GSWindowLen == num_days(gs_start, gs_end)

\* the window's days on which the site is available, by park_information
FullyAvailable(i) ==
    WindowDates(gs_start, gs_end) \subseteq SeqSet(gs_info[i][2])

RangesOfSite(site) ==
    SelectSeq(gs_result.availabilities_filtered, LAMBDA r : r.site = int(site))

\* C2: with nights unset or greater than the window length W, the effective
\* nights is W, and every site available on all W days of the window yields
\* exactly the range (window start, window end) and is counted.
C2_ClampedFullWindow ==
    (gs_pc = "done" /\ GSWindowLen >= 1
       /\ (gs_nights = NightsUnset \/ gs_nights > GSWindowLen)) =>
        /\ ~gs_result.err
        /\ gs_result.nights = GSWindowLen
        /\ \A i \in 1..Len(gs_info) :
              FullyAvailable(i) =>
                 RangesOfSite(gs_info[i][1]) =
                    << [site |-> int(gs_info[i][1]),
                        start |-> format_date(gs_start, INPUT_DATE_FORMAT),
                        end |-> format_date(gs_end, INPUT_DATE_FORMAT)] >>
        /\ gs_result.num_available >=
              Cardinality({i \in 1..Len(gs_info) : FullyAvailable(i)})

\* C8: a call with nights greater than the window length W raises no error
\* and returns what the call with nights = W returns.
C8_ClampingLaw ==
    (gs_pc = "done" /\ gs_nights > GSWindowLen) =>
        /\ ~gs_result.err
        /\ gs_result = get_num_available_sites(gs_info, gs_start, gs_end, GSWindowLen)

\* the site ids of the fetched documents
SitesSeen ==
    UNION {Keys(gs_api_data[m].campsites) : m \in 1..Len(gs_api_data)}

\* C9: the total site count is the number of distinct site ids of the
\* fetched documents, and 0 <= available site count <= total site count.
C9_TotalSiteCount ==
    (gs_pc = "done" /\ ~gs_result.err) =>
        /\ gs_result.maximum = Cardinality(SitesSeen)
        /\ 0 <= gs_result.num_available
        /\ gs_result.num_available <= gs_result.maximum

\* two months fetched, a type filter, a site with no retained date, a site
\* whose dates are all outside the window, and yet a total of two
C9_Witness ==
    /\ gs_pc = "done" /\ ~gs_result.err
    /\ Len(gs_api_data) >= 2
    /\ gs_type # NoType
    /\ gs_result.maximum = 2
    /\ \E i \in 1..Len(gs_info) : gs_info[i][2] = <<>>
    /\ \E i \in 1..Len(gs_info) :
          /\ gs_info[i][2] # <<>>
          /\ SeqSet(gs_info[i][2]) \cap WindowDates(gs_start, gs_end) = {}

\* C10: every returned range is (start, start + effective nights), lies in
\* the window, and covers only days on which its site is available.
C10_RangeSound ==
    (gs_pc = "done" /\ ~gs_result.err) =>
        \A k \in 1..Len(gs_result.availabilities_filtered) :
            LET r == gs_result.availabilities_filtered[k]
                s == Ord(r.start)
                e == Ord(r.end)
            IN  /\ r.start[1] = INPUT_DATE_FORMAT /\ r.end[1] = INPUT_DATE_FORMAT
                /\ e = s + gs_result.nights
                /\ toordinal(gs_start) <= s
                /\ e <= toordinal(gs_end)
                /\ ToString(r.site) \in Keys(gs_info)
                /\ \A d \in s..(e - 1) :
                      format_date(fromordinal(d), ISO_DATE_FORMAT_RESPONSE)
                         \in SeqSet(Get(gs_info, ToString(r.site)))

\* a range was returned for a site that also has available days outside the
\* window, in a window over two months
C10_Witness ==
    /\ gs_pc = "done" /\ ~gs_result.err
    /\ Len(gs_api_data) >= 2
    /\ \E k \in 1..Len(gs_result.availabilities_filtered) :
          LET r == gs_result.availabilities_filtered[k]
          IN  /\ r.start[3] # r.end[3]
              /\ \E x \in SeqSet(Get(gs_info, ToString(r.site))) :
                    x \notin WindowDates(gs_start, gs_end)

----------------------------------------------------------------------------
(* Properties of the batch (Spec) *)

ErrorAlerts == Cardinality({i \in 1..Len(b_emails) : b_emails[i].kind = "error"})

AvailableMails ==
    Cardinality({i \in 1..Len(b_emails) : b_emails[i].kind = "available"})

\* C3: a fetch issues at most 5 requests.
C3_AtMostFiveRequests == b_requests <= MaxTries

\* C4: a fetch that fails permanently has sent exactly one alert, the alert
\* is out before the failure leaves send_request, and the fetch returns no
\* document; while no fetch has failed, no alert has been sent.
C4_OneAlertPerFailedFetch ==
    /\ b_pc = "raise" => (ErrorAlerts = 1 /\ b_return = NotReturned)
    /\ b_pc = "failed" => (ErrorAlerts = 1 /\ b_documents = b_fetches - 1)
    /\ b_pc \in {"waiting", "done"} => (ErrorAlerts = 0 /\ ~b_failed)

\* a fetch failed after earlier fetches of the batch had succeeded
C4_Witness ==
    /\ b_pc = "failed"
    /\ b_documents >= 2
    /\ ErrorAlerts = 1

\* C5: once a fetch of a park's check has failed permanently, the check has
\* returned nothing, nothing is printed, no availability mail is sent and
\* the batch does nothing more.
C5_FailureAbortsBatch ==
    (b_failed /\ b_pc # "raise") =>
        /\ Len(b_results) = b_park - 1
        /\ Len(b_out) = b_park - 1
        /\ b_stdout = <<>>
        /\ AvailableMails = 0
        /\ b_return = NotReturned
        /\ ~ENABLED Next

\* the second park's check failed after the first park showed availability
C5_Witness ==
    /\ b_pc = "failed"
    /\ b_park = 2
    /\ b_availabilities
    /\ b_results[1].current >= 1

\* C6: a batch that completes returns TRUE iff some park has an available
\* site count >= 1, sends the availability mail once iff it returns TRUE,
\* and prints one line per park, in the order of the parks, marked available
\* iff the park's count is >= 1.
C6_BatchResult ==
    (b_pc = "done" /\ ~b_failed) =>
        LET any == \E i \in 1..Len(b_results) : b_results[i].current >= 1
        IN  /\ b_return = <<any>>
            /\ AvailableMails = (IF any THEN 1 ELSE 0)
            /\ Len(b_results) = Len(b_parks)
            /\ Len(b_out) = Len(b_parks)
            /\ \A i \in 1..Len(b_out) :
                  /\ b_out[i].park_id = b_parks[i]
                  /\ b_results[i].park_id = b_parks[i]
                  /\ b_out[i].current = b_results[i].current
                  /\ b_out[i].maximum = b_results[i].maximum
                  /\ (b_out[i].emoji = SUCCESS_EMOJI) <=> (b_results[i].current >= 1)
            /\ b_stdout = << [headline |-> any] >> \o b_out
            /\ any => b_emails[Len(b_emails)].body = b_out

\* two parks, only the first with availability: the result is TRUE and one
\* mail is sent
C6_Witness ==
    /\ b_pc = "done"
    /\ Len(b_parks) = 2
    /\ b_results[1].current >= 1
    /\ b_results[2].current = 0
    /\ b_return = <<TRUE>>
    /\ AvailableMails = 1

====
